---- MODULE Spec2Model ----
(***************************************************************************)
(* A model of call_with_payload.py: one run of the script, from argument   *)
(* parsing to process exit.  Python values are tagged records; a Python    *)
(* string that the program slices, searches or case-maps is a sequence of  *)
(* one-character strings, a string it only compares or passes on is an     *)
(* atom.  A raised exception is the name of its class ("" when none).      *)
(***************************************************************************)
EXTENDS Integers, Sequences, FiniteSets, TLC

VARIABLES pc, args, model_id, file, payload, api_params, calls, outcome, out, uncaught, success, exitCode

vars == <<pc, args, model_id, file, payload, api_params, calls, outcome, out, uncaught, success, exitCode>>

(***************************************************************************)
(* Bounds of the model.                                                    *)
(***************************************************************************)
\* the most content blocks in a response message
MaxBlocks == 2
\* the most conversation turns in a payload
MaxMsgs == 2

(***************************************************************************)
(* Python values.                                                          *)
(***************************************************************************)
PyNone == [t |-> "none"]
PyInt(n) == [t |-> "int", n |-> n]
PyFloat(whole, tenths) == [t |-> "float", whole |-> whole, tenths |-> tenths]
PyStr(s) == [t |-> "str", s |-> s]
Atom(a) == [t |-> "atom", a |-> a]
PyList(items) == [t |-> "list", items |-> items]
PyDict(d) == [t |-> "dict", d |-> d]

EmptyDict == PyDict([k \in {} |-> PyNone])
EmptyList == PyList(<<>>)
EmptyStr == PyStr(<<>>)

\* a dict with one key, and the union of two dicts with disjoint keys
One(k, v) == PyDict([x \in {k} |-> v])
Merge(a, b) == PyDict([x \in DOMAIN a.d \cup DOMAIN b.d |-> IF x \in DOMAIN a.d THEN a.d[x] ELSE b.d[x]])

\* bool(v)
Truthy(v) ==
  CASE v.t = "none" -> FALSE
    [] v.t = "int" -> v.n # 0
    [] v.t = "float" -> v.whole # 0 \/ v.tenths # 0
    [] v.t = "str" -> Len(v.s) > 0
    [] v.t = "atom" -> v.a # ""
    [] v.t = "list" -> Len(v.items) > 0
    [] v.t = "dict" -> DOMAIN v.d # {}

IsDict(v) == v.t = "dict"

\* len(v) is defined (otherwise TypeError)
HasLen(v) == v.t \in {"str", "list", "dict"}
PyLen(v) ==
  CASE v.t = "str" -> Len(v.s)
    [] v.t = "list" -> Len(v.items)
    [] v.t = "dict" -> Cardinality(DOMAIN v.d)

\* k in d, and d.get(k, dflt), for a dict d
Has(d, k) == k \in DOMAIN d.d
Get(d, k, dflt) == IF k \in DOMAIN d.d THEN d.d[k] ELSE dflt

RECURSIVE SetToSeq(_)
SetToSeq(S) == IF S = {} THEN <<>> ELSE LET x == CHOOSE y \in S : TRUE IN <<x>> \o SetToSeq(S \ {x})

\* the values a for loop over v visits (v has a length)
Iter(v) ==
  CASE v.t = "list" -> v.items
    [] v.t = "str" -> [i \in 1..Len(v.s) |-> PyStr(<<v.s[i]>>)]
    [] v.t = "dict" -> [i \in 1..Cardinality(DOMAIN v.d) |-> Atom(SetToSeq(DOMAIN v.d)[i])]

(***************************************************************************)
(* Strings as character sequences.                                         *)
(***************************************************************************)
UpperCase == <<"A","B","C","D","E","F","G","H","I","J","K","L","M","N","O","P","Q","R","S","T","U","V","W","X","Y","Z">>
LowerCase == <<"a","b","c","d","e","f","g","h","i","j","k","l","m","n","o","p","q","r","s","t","u","v","w","x","y","z">>

LowerChar(c) == IF \E i \in 1..26 : UpperCase[i] = c THEN LowerCase[CHOOSE i \in 1..26 : UpperCase[i] = c] ELSE c
UpperChar(c) == IF \E i \in 1..26 : LowerCase[i] = c THEN UpperCase[CHOOSE i \in 1..26 : LowerCase[i] = c] ELSE c

\* str.lower() and str.upper()
Lower(s) == [i \in 1..Len(s) |-> LowerChar(s[i])]
Upper(s) == [i \in 1..Len(s) |-> UpperChar(s[i])]

\* needle in hay, for strings
Contains(hay, needle) ==
  \E i \in 0..(Len(hay) - Len(needle)) : SubSeq(hay, i + 1, i + Len(needle)) = needle

Ellipsis == <<".", ".", ".">>

\* text[:n] + ('...' if len(text) > n else '')
Truncate(text, n) == SubSeq(text, 1, IF Len(text) < n THEN Len(text) ELSE n) \o (IF Len(text) > n THEN Ellipsis ELSE <<>>)

Rep(c, n) == [i \in 1..n |-> c]


(***************************************************************************)
(* Console output: one event per print, in order.                          *)
(***************************************************************************)
Ev(k, v) == [k |-> k, v |-> v]

\* the outcome of a stretch of code: what it printed, and the exception that ended it
Ok(o) == [out |-> o, exc |-> ""]
Raise(o, e) == [out |-> o, exc |-> e]

sUnknownLower == <<"u","n","k","n","o","w","n">>
sUnknown == <<"U","n","k","n","o","w","n">>
sNoDescription == <<"N","o"," ","d","e","s","c","r","i","p","t","i","o","n">>
sDefault == <<"d","e","f","a","u","l","t">>

\* program constants: the preview limits and the default inference parameters
HistoryLimit == 100
SystemLimit == 150
ToolDescLimit == 80
DefaultMaxTokens == 4096

DefaultModelId == "us.anthropic.claude-3-7-sonnet-20250219-v1:0"

\* the default inferenceConfig: {"maxTokens": 4096, "temperature": 0.7}
DefaultInferenceConfig == Merge(One("maxTokens", PyInt(DefaultMaxTokens)), One("temperature", PyFloat(0, 7)))

(***************************************************************************)
(* get_common_model_ids                                                    *)
(***************************************************************************)
ShortcutNames == {"claude-3.7-sonnet", "claude-3.5-sonnet", "claude-3.5-haiku", "claude-3-opus", "claude-3-sonnet", "claude-3-haiku"}

get_common_model_ids ==
  [n \in ShortcutNames |->
     CASE n = "claude-3.7-sonnet" -> "us.anthropic.claude-3-7-sonnet-20250219-v1:0"
       [] n = "claude-3.5-sonnet" -> "us.anthropic.claude-3-5-sonnet-20241022-v2:0"
       [] n = "claude-3.5-haiku" -> "us.anthropic.claude-3-5-haiku-20241022-v1:0"
       [] n = "claude-3-opus" -> "us.anthropic.claude-3-opus-20240229-v1:0"
       [] n = "claude-3-sonnet" -> "us.anthropic.claude-3-sonnet-20240229-v1:0"
       [] n = "claude-3-haiku" -> "us.anthropic.claude-3-haiku-20240307-v1:0"]


\* a variant of ResolveShortcut that never consults the table
ResolveNothing(arg) == arg

\* __main__, "Handle model ID shortcuts": arg is args.model_id, None or a string
ResolveShortcut(arg) ==
  IF Truthy(arg) /\ arg.a \in DOMAIN get_common_model_ids THEN Atom(get_common_model_ids[arg.a]) ELSE arg

\* call_converse_with_payload, "Default model ID": None becomes the default
DefaultModel(id) == IF id.t = "none" THEN Atom(DefaultModelId) ELSE id

(***************************************************************************)
(* call_converse_with_payload: from the payload to the request.            *)
(***************************************************************************)

\* a variant of NormalizeInferenceConfig that fills the missing keys of a partial config
MergeWithDefaults(ic) ==
  IF ~Truthy(ic) THEN DefaultInferenceConfig
  ELSE IF IsDict(ic) THEN PyDict([k \in DOMAIN ic.d \cup DOMAIN DefaultInferenceConfig.d |->
                                    IF k \in DOMAIN ic.d THEN ic.d[k] ELSE DefaultInferenceConfig.d[k]])
  ELSE ic

\* "Use default inference config if not provided in payload"
NormalizeInferenceConfig(ic) == IF ~Truthy(ic) THEN DefaultInferenceConfig ELSE ic

\* the four payload.get(...) calls and the default substitution
Extract(p) ==
  [system |-> Get(p, "system", EmptyList),
   messages |-> Get(p, "messages", EmptyList),
   tool_config |-> Get(p, "toolConfig", EmptyDict),
   inference_config |-> NormalizeInferenceConfig(Get(p, "inferenceConfig", EmptyDict))]

\* "Payload Summary": five prints, each evaluating its f-string first
Summary(x) ==
  LET h == <<Ev("summary", PyNone)>> IN
  IF ~HasLen(x.system) THEN Raise(h, "TypeError") ELSE
  LET h1 == h \o <<Ev("summary_system", PyInt(PyLen(x.system)))>> IN
  IF ~HasLen(x.messages) THEN Raise(h1, "TypeError") ELSE
  LET h2 == h1 \o <<Ev("summary_messages", PyInt(PyLen(x.messages)))>> IN
  IF ~IsDict(x.tool_config) THEN Raise(h2, "AttributeError") ELSE
  LET tools == Get(x.tool_config, "tools", EmptyList) IN
  IF ~HasLen(tools) THEN Raise(h2, "TypeError") ELSE
  LET h3 == h2 \o <<Ev("summary_tools", PyInt(PyLen(tools)))>> IN
  IF ~IsDict(x.inference_config) THEN Raise(h3, "AttributeError") ELSE
  Ok(h3 \o <<Ev("summary_max_tokens", Get(x.inference_config, "maxTokens", PyStr(sDefault))),
             Ev("summary_temperature", Get(x.inference_config, "temperature", PyStr(sDefault)))>>)

\* the body of the conversation-history loop for message number i
HistoryItem(msg, i) ==
  IF ~IsDict(msg) THEN Raise(<<>>, "AttributeError") ELSE
  LET role == Get(msg, "role", PyStr(sUnknownLower))
      content == Get(msg, "content", EmptyList) IN
  IF ~(Truthy(content) /\ content.t = "list" /\ Len(content.items) > 0) THEN Ok(<<>>) ELSE
  LET c0 == content.items[1] IN
  IF ~IsDict(c0) THEN Raise(<<>>, "AttributeError") ELSE
  LET text == Get(c0, "text", EmptyStr) IN
  IF text.t # "str" THEN Raise(<<>>, "TypeError") ELSE
  IF role.t # "str" THEN Raise(<<>>, "AttributeError") ELSE
  Ok(<<Ev("history", PyList(<<PyInt(i), PyStr(Upper(role.s)), PyStr(Truncate(text.s, HistoryLimit))>>))>>)

RECURSIVE HistoryLoop(_, _, _)
HistoryLoop(items, i, acc) ==
  IF i > Len(items) THEN Ok(acc) ELSE
  LET r == HistoryItem(items[i], i) IN
  IF r.exc # "" THEN Raise(acc \o r.out, r.exc) ELSE HistoryLoop(items, i + 1, acc \o r.out)

\* "Show the conversation history" (messages has a length here)
History(messages) ==
  IF ~Truthy(messages) THEN Ok(<<>>) ELSE HistoryLoop(Iter(messages), 1, <<Ev("history_header", PyNone)>>)

\* "Show system prompt if present" (system has a length here)
SystemPreview(system) ==
  IF ~Truthy(system) THEN Ok(<<>>) ELSE
  LET h == <<Ev("system_header", PyNone)>> IN
  IF system.t = "dict" THEN Raise(h, "KeyError") ELSE
  LET s0 == Iter(system)[1] IN
  IF ~IsDict(s0) THEN Raise(h, "AttributeError") ELSE
  LET text == Get(s0, "text", EmptyStr) IN
  IF text.t # "str" THEN Raise(h, "TypeError") ELSE
  Ok(h \o <<Ev("system_preview", PyStr(Truncate(text.s, SystemLimit)))>>)

\* the body of the available-tools loop
ToolItem(tool) ==
  IF ~IsDict(tool) THEN Raise(<<>>, "AttributeError") ELSE
  LET spec == Get(tool, "toolSpec", EmptyDict) IN
  IF ~IsDict(spec) THEN Raise(<<>>, "AttributeError") ELSE
  LET tool_name == Get(spec, "name", PyStr(sUnknown))
      tool_desc == Get(spec, "description", PyStr(sNoDescription)) IN
  IF tool_desc.t # "str" THEN Raise(<<>>, "TypeError") ELSE
  Ok(<<Ev("tool", PyList(<<tool_name, PyStr(Truncate(tool_desc.s, ToolDescLimit))>>))>>)

RECURSIVE ToolLoop(_, _, _)
ToolLoop(items, i, acc) ==
  IF i > Len(items) THEN Ok(acc) ELSE
  LET r == ToolItem(items[i]) IN
  IF r.exc # "" THEN Raise(acc \o r.out, r.exc) ELSE ToolLoop(items, i + 1, acc \o r.out)

\* "Show available tools if present" (tool_config is a dict and its tools have a length here)
ToolsPreview(tool_config) ==
  LET tools == Get(tool_config, "tools", PyNone) IN
  IF ~Truthy(tools) THEN Ok(<<>>) ELSE ToolLoop(Iter(tools), 1, <<Ev("tools_header", PyNone)>>)


\* a variant of BuildParams that forwards system and toolConfig whether empty or not
BuildParamsAlways(id, x) ==
  Merge(Merge(One("modelId", id), Merge(One("messages", x.messages), One("inferenceConfig", x.inference_config))),
        Merge(One("system", x.system), One("toolConfig", x.tool_config)))

\* "Prepare the API call parameters" and "Add optional parameters if they exist"
BuildParams(id, x) ==
  LET base == Merge(One("modelId", id), Merge(One("messages", x.messages), One("inferenceConfig", x.inference_config)))
      withSystem == IF Truthy(x.system) THEN Merge(base, One("system", x.system)) ELSE base
  IN IF Truthy(x.tool_config) THEN Merge(withSystem, One("toolConfig", x.tool_config)) ELSE withSystem

\* lines 58-120 on a loaded payload p: what is printed, the exception raised
\* if any, and the request assembled if none
Prepare(id, p) ==
  IF ~IsDict(p) THEN [out |-> <<>>, exc |-> "AttributeError", params |-> EmptyDict] ELSE
  LET x == Extract(p)
      s == Summary(x) IN
  IF s.exc # "" THEN [out |-> s.out, exc |-> s.exc, params |-> EmptyDict] ELSE
  LET h == History(x.messages) IN
  IF h.exc # "" THEN [out |-> s.out \o h.out, exc |-> h.exc, params |-> EmptyDict] ELSE
  LET y == SystemPreview(x.system) IN
  IF y.exc # "" THEN [out |-> s.out \o h.out \o y.out, exc |-> y.exc, params |-> EmptyDict] ELSE
  LET t == ToolsPreview(x.tool_config) IN
  IF t.exc # "" THEN [out |-> s.out \o h.out \o y.out \o t.out, exc |-> t.exc, params |-> EmptyDict] ELSE
  [out |-> s.out \o h.out \o y.out \o t.out \o <<Ev("calling", PyNone)>>, exc |-> "", params |-> BuildParams(id, x)]


(***************************************************************************)
(* call_converse_with_payload: rendering the response.                     *)
(***************************************************************************)
\* json.dumps(v, indent=2): the serialized text, kept as the value it encodes
JsonDumps(v) == [t |-> "json", of |-> v, indent |-> 2]

\* "output" in response and "message" in response["output"]
HasMessage(response) == Has(response, "output") /\ Has(response.d["output"], "message")

\* the content blocks of the output message, when it has any
HasContent(response) == HasMessage(response) /\ Has(response.d["output"].d["message"], "content")
ContentOf(response) == response.d["output"].d["message"].d["content"].items

\* the if/elif on one content block
RenderBlock(block) ==
  IF Has(block, "text") THEN <<Ev("text", block.d["text"])>>
  ELSE IF Has(block, "toolUse") THEN
    LET tool_use == block.d["toolUse"] IN
    <<Ev("tool_call", Get(tool_use, "name", PyStr(sUnknown))),
      Ev("tool_id", Get(tool_use, "toolUseId", Atom("N/A"))),
      Ev("tool_input", JsonDumps(Get(tool_use, "input", EmptyDict)))>>
  ELSE <<>>

RECURSIVE RenderBlocks(_)
RenderBlocks(blocks) == IF blocks = <<>> THEN <<>> ELSE RenderBlock(Head(blocks)) \o RenderBlocks(Tail(blocks))

\* "Extract and print the response"
RenderContent(response) ==
  IF HasMessage(response)
  THEN <<Ev("response_header", PyNone)>> \o (IF HasContent(response) THEN RenderBlocks(ContentOf(response)) ELSE <<>>)
  ELSE <<>>

\* "Print usage statistics" and "Additional usage details if available"
RenderUsage(response) ==
  LET usage == Get(response, "usage", EmptyDict) IN
  <<Ev("usage_header", PyNone),
    Ev("usage_input", Get(usage, "inputTokens", PyInt(0))),
    Ev("usage_output", Get(usage, "outputTokens", PyInt(0))),
    Ev("usage_total", Get(usage, "totalTokens", PyInt(0)))>>
  \o (IF Get(usage, "cacheReadInputTokens", PyInt(0)).n > 0
      THEN <<Ev("usage_cache_read", Get(usage, "cacheReadInputTokens", PyInt(0)))>> ELSE <<>>)
  \o (IF Get(usage, "cacheWriteInputTokens", PyInt(0)).n > 0
      THEN <<Ev("usage_cache_write", Get(usage, "cacheWriteInputTokens", PyInt(0)))>> ELSE <<>>)

\* tool_calls = [block for block in message["content"] if "toolUse" in block]
ToolCalls(blocks) == SelectSeq(blocks, LAMBDA b : Has(b, "toolUse"))

\* "Check if there are tool calls that need responses"
RenderAdvisory(response) ==
  IF HasContent(response) /\ ToolCalls(ContentOf(response)) # <<>>
  THEN <<Ev("advisory", PyInt(Len(ToolCalls(ContentOf(response)))))>> \o [i \in 1..4 |-> Ev("advisory_step", PyInt(i - 1))]
  ELSE <<>>

\* "Check stop reason"
RenderStop(response) == <<Ev("stop_reason", Get(response, "stopReason", PyStr(sUnknownLower)))>>


\* a variant of Render that prints the usage statistics only with the output message
RenderUsageWithMessage(response) ==
  RenderContent(response) \o (IF HasMessage(response) THEN RenderUsage(response) ELSE <<>>)
  \o RenderAdvisory(response) \o RenderStop(response)

\* the try block after the call returned
Render(response) == RenderContent(response) \o RenderUsage(response) \o RenderAdvisory(response) \o RenderStop(response)

(***************************************************************************)
(* call_converse_with_payload: the except block.                           *)
(***************************************************************************)
sValidationException == <<"v","a","l","i","d","a","t","i","o","n","e","x","c","e","p","t","i","o","n">>
sModel == <<"m","o","d","e","l">>
sAccessDenied == <<"a","c","c","e","s","s","d","e","n","i","e","d">>

\* a variant of Classify that searches str(e) itself, not its lower-case form
ClassifyCaseSensitive(text) ==
  IF Contains(text, sValidationException) /\ Contains(text, sModel) THEN "model"
  ELSE IF Contains(text, sAccessDenied) THEN "access"
  ELSE "none"

\* the if/elif on error_str = str(e).lower(): which hint block is printed
Classify(text) ==
  LET error_str == Lower(text) IN
  IF Contains(error_str, sValidationException) /\ Contains(error_str, sModel) THEN "model"
  ELSE IF Contains(error_str, sAccessDenied) THEN "access"
  ELSE "none"

RenderError(id, text) ==
  <<Ev("error", PyStr(text))>> \o
  (CASE Classify(text) = "model" ->
          <<Ev("tips", PyNone), Ev("tip_model_id", id), Ev("tip_region", PyNone), Ev("tip_model_access", PyNone)>>
     [] Classify(text) = "access" ->
          <<Ev("tips", PyNone), Ev("tip_credentials", PyNone), Ev("tip_permission", PyNone), Ev("tip_console", PyNone)>>
     [] OTHER -> <<>>)


(***************************************************************************)
(* The inputs of a run: the command line, the payload file, the response.  *)
(***************************************************************************)
\* args.model_id: None when the flag is absent, else the string given
ModelArgs == {PyNone, Atom(""), Atom("my.custom-model-v1:0"), Atom("claude-3.5-haiku"), Atom("claude-3.7-sonnet")}

sUser == <<"u","s","e","r">>
sAssistant == <<"a","s","s","i","s","t","a","n","t">>
sHi == <<"h","i">>

Message(role, text) == Merge(One("role", PyStr(role)), One("content", PyList(<<One("text", PyStr(text))>>)))

\* n turns, user first; the assistant's text is one character over the preview limit
Conversation(n) ==
  PyList([i \in 1..n |-> IF i % 2 = 1 THEN Message(sUser, sHi) ELSE Message(sAssistant, Rep("y", HistoryLimit + 1))])

Tool == One("toolSpec", Merge(One("name", PyStr(<<"s","e","a","r","c","h">>)), One("description", PyStr(Rep("d", ToolDescLimit)))))

\* each field of the payload: absent, well-shaped values, and one ill-shaped value
SystemOptions ==
  {EmptyDict, One("system", EmptyList), One("system", PyList(<<One("text", PyStr(Rep("s", SystemLimit + 1)))>>)),
   One("system", PyStr(<<"x">>))}
MessagesOptions ==
  {EmptyDict, One("messages", PyNone)} \cup {One("messages", Conversation(n)) : n \in 0..MaxMsgs}
ToolConfigOptions ==
  {EmptyDict, One("toolConfig", EmptyDict), One("toolConfig", One("tools", PyList(<<Tool>>))),
   One("toolConfig", EmptyList)}
InferenceConfigOptions ==
  {EmptyDict, One("inferenceConfig", EmptyDict), One("inferenceConfig", One("maxTokens", PyInt(2000))),
   One("inferenceConfig", PyList(<<PyInt(1)>>))}

\* what json.load can return: objects of the fields above, and JSON values that are no object
Payloads ==
  {Merge(Merge(s, m), Merge(tc, ic)) :
     s \in SystemOptions, m \in MessagesOptions, tc \in ToolConfigOptions, ic \in InferenceConfigOptions}
  \cup {EmptyList, PyNone}

\* the .json files os.listdir finds when the payload file is missing
Listings == {<<>>, <<Atom("other.json")>>}

TextBlock == One("text", PyStr(sHi))
ToolUseBlock ==
  One("toolUse", Merge(One("name", PyStr(<<"s","e","a","r","c","h">>)),
                       Merge(One("toolUseId", Atom("tooluse_1")), One("input", One("q", PyStr(sHi))))))
BothBlock == Merge(TextBlock, ToolUseBlock)
Blocks == {TextBlock, ToolUseBlock, BothBlock}

Contents == UNION {[1..n -> Blocks] : n \in 0..MaxBlocks}

OutputOptions ==
  {EmptyDict, One("output", EmptyDict), One("output", One("message", EmptyDict))}
  \cup {One("output", One("message", One("content", PyList(c)))) : c \in Contents}
UsageOptions ==
  {EmptyDict,
   One("usage", Merge(Merge(One("inputTokens", PyInt(1200)), One("outputTokens", PyInt(34))),
                      Merge(One("totalTokens", PyInt(1234)),
                            Merge(One("cacheReadInputTokens", PyInt(5)), One("cacheWriteInputTokens", PyInt(0))))))}
StopOptions == {EmptyDict, One("stopReason", PyStr(<<"t","o","o","l","_","u","s","e">>))}

\* what bedrock.converse can return
Responses == {Merge(o, Merge(u, st)) : o \in OutputOptions, u \in UsageOptions, st \in StopOptions}

\* what str(e) can be when bedrock.converse raises
ErrorTexts ==
  {<<"A","c","c","e","s","s","D","e","n","i","e","d","E","x","c","e","p","t","i","o","n",":"," ","n","o","t"," ","a","u","t","h","o","r","i","z","e","d">>,
   <<"A","C","C","E","S","S","D","E","N","I","E","D">>,
   <<"V","a","l","i","d","a","t","i","o","n","E","x","c","e","p","t","i","o","n",":"," ","i","n","v","a","l","i","d"," ","m","o","d","e","l"," ","i","d","e","n","t","i","f","i","e","r">>,
   <<"V","a","l","i","d","a","t","i","o","n","E","x","c","e","p","t","i","o","n",":"," ","A","c","c","e","s","s","D","e","n","i","e","d"," ","f","o","r"," ","m","o","d","e","l">>,
   <<"V","a","l","i","d","a","t","i","o","n","E","x","c","e","p","t","i","o","n",":"," ","b","a","d"," ","i","n","p","u","t">>,
   <<"A","c","c","e","s","s"," ","d","e","n","i","e","d">>,
   <<"T","h","r","o","t","t","l","i","n","g","E","x","c","e","p","t","i","o","n",":"," ","s","l","o","w"," ","d","o","w","n">>}

(***************************************************************************)
(* The run.                                                                *)
(***************************************************************************)
NoOutcome == [kind |-> "none", v |-> PyNone]

Init ==
  /\ pc = "main"
  /\ args = [kind |-> "unparsed", model_id |-> PyNone]
  /\ model_id = PyNone
  /\ file = "unread"
  /\ payload = PyNone
  /\ api_params = EmptyDict
  /\ calls = <<>>
  /\ outcome = NoOutcome
  /\ out = <<>>
  /\ uncaught = ""
  /\ success = "none"
  /\ exitCode = -1

\* parser.parse_args() exits: print_usage, sys.exit(1)
MainMalformed ==
  /\ pc = "main"
  /\ args' = [kind |-> "malformed", model_id |-> PyNone]
  /\ out' = out \o <<Ev("print_usage", PyNone)>>
  /\ exitCode' = 1
  /\ pc' = "done"
  /\ UNCHANGED <<file, model_id, payload, api_params, calls, outcome, uncaught, success>>

\* args.help: print_usage, sys.exit(0)
MainHelp ==
  /\ pc = "main"
  /\ args' = [kind |-> "help", model_id |-> PyNone]
  /\ out' = out \o <<Ev("print_usage", PyNone)>>
  /\ exitCode' = 0
  /\ pc' = "done"
  /\ UNCHANGED <<file, model_id, payload, api_params, calls, outcome, uncaught, success>>

\* the model shortcut, the banner, and the call of call_converse_with_payload
MainRun ==
  /\ pc = "main"
  /\ \E arg \in ModelArgs :
       /\ args' = [kind |-> "run", model_id |-> arg]
       /\ model_id' = ResolveShortcut(arg)
       /\ out' = out
            \o (IF ResolveShortcut(arg) # arg THEN <<Ev("shortcut", PyList(<<arg, ResolveShortcut(arg)>>))>> ELSE <<>>)
            \o <<Ev("banner", PyNone), Ev("payload_file", PyNone)>>
            \o (IF Truthy(ResolveShortcut(arg)) THEN <<Ev("model_id", ResolveShortcut(arg))>> ELSE <<>>)
  /\ pc' = "client"
  /\ UNCHANGED <<file, payload, api_params, calls, outcome, uncaught, success, exitCode>>

\* the default model and boto3.client(...), which returns or raises
CreateClient ==
  /\ pc = "client"
  /\ model_id' = DefaultModel(model_id)
  /\ \E raised \in {"", "InvalidRegionError", "UnknownServiceError"} :
       /\ uncaught' = raised
       /\ pc' = IF raised = "" THEN "load" ELSE "raise"
  /\ UNCHANGED <<args, file, payload, api_params, calls, outcome, out, success, exitCode>>

\* os.path.exists(payload_file) is False
LoadMissing ==
  /\ pc = "load"
  /\ file' = "missing"
  /\ \E json_files \in Listings :
       out' = out \o <<Ev("not_found", PyNone), Ev("cwd", PyNone), Ev("available", PyNone)>>
                  \o (IF json_files # <<>> THEN [i \in 1..Len(json_files) |-> Ev("json_file", json_files[i])]
                      ELSE <<Ev("no_json_files", PyNone)>>)
  /\ success' = "false"
  /\ pc' = "exit"
  /\ UNCHANGED <<args, model_id, payload, api_params, calls, outcome, uncaught, exitCode>>


\* a variant of LoadFails that goes on with an empty payload after the error
LoadFailsGoesOn ==
  /\ pc = "load"
  /\ \E e \in {"JSONDecodeError", "PermissionError", "UnicodeDecodeError"} :
       /\ file' = (IF e = "JSONDecodeError" THEN "invalid_json" ELSE "unreadable")
       /\ out' = out \o <<Ev(IF e = "JSONDecodeError" THEN "invalid_json" ELSE "read_error", Atom(e))>>
  /\ payload' = EmptyDict
  /\ pc' = "prepare"
  /\ UNCHANGED <<args, model_id, api_params, calls, outcome, uncaught, success, exitCode>>

\* open or json.load raises: JSONDecodeError, or any other Exception
LoadFails ==
  /\ pc = "load"
  /\ \E e \in {"JSONDecodeError", "PermissionError", "UnicodeDecodeError"} :
       /\ file' = (IF e = "JSONDecodeError" THEN "invalid_json" ELSE "unreadable")
       /\ out' = out \o <<Ev(IF e = "JSONDecodeError" THEN "invalid_json" ELSE "read_error", Atom(e))>>
  /\ success' = "false"
  /\ pc' = "exit"
  /\ UNCHANGED <<args, model_id, payload, api_params, calls, outcome, uncaught, exitCode>>

\* json.load returns
LoadOk ==
  /\ pc = "load"
  /\ file' = "loaded"
  /\ \E p \in Payloads : payload' = p
  /\ out' = out \o <<Ev("loaded", PyNone), Ev("using_model", model_id)>>
  /\ pc' = "prepare"
  /\ UNCHANGED <<args, model_id, api_params, calls, outcome, uncaught, success, exitCode>>

\* from "Extract components from payload" to the assembled api_params
PrepareRequest ==
  /\ pc = "prepare"
  /\ LET r == Prepare(model_id, payload) IN
       /\ out' = out \o r.out
       /\ uncaught' = r.exc
       /\ api_params' = r.params
       /\ pc' = IF r.exc = "" THEN "call" ELSE "raise"
  /\ UNCHANGED <<args, file, model_id, payload, calls, outcome, success, exitCode>>

\* response = bedrock.converse(**api_params), which returns or raises
Converse ==
  /\ pc = "call"
  /\ calls' = Append(calls, api_params)
  /\ \/ \E response \in Responses : outcome' = [kind |-> "response", v |-> response]
     \/ \E text \in ErrorTexts : outcome' = [kind |-> "error", v |-> PyStr(text)]
  /\ pc' = "called"
  /\ UNCHANGED <<args, file, model_id, payload, api_params, out, uncaught, success, exitCode>>

\* the rest of the try block
RenderResponse ==
  /\ pc = "called"
  /\ outcome.kind = "response"
  /\ out' = out \o Render(outcome.v)
  /\ pc' = "finish"
  /\ UNCHANGED <<args, file, model_id, payload, api_params, calls, outcome, uncaught, success, exitCode>>

\* except Exception as e: the error, the hints, return False
HandleError ==
  /\ pc = "called"
  /\ outcome.kind = "error"
  /\ out' = out \o RenderError(model_id, outcome.v.s)
  /\ success' = "false"
  /\ pc' = "exit"
  /\ UNCHANGED <<args, file, model_id, payload, api_params, calls, outcome, uncaught, exitCode>>

\* the success banner, return True
Finish ==
  /\ pc = "finish"
  /\ out' = out \o <<Ev("completed", PyNone)>>
  /\ success' = "true"
  /\ pc' = "exit"
  /\ UNCHANGED <<args, file, model_id, payload, api_params, calls, outcome, uncaught, exitCode>>


\* a variant of MainExit that lets the script end whatever the function returned
MainExitIgnoresResult ==
  /\ pc = "exit"
  /\ exitCode' = 0
  /\ pc' = "done"
  /\ UNCHANGED <<args, file, model_id, payload, api_params, calls, outcome, out, uncaught, success>>

\* if not success: sys.exit(1); otherwise the script ends
MainExit ==
  /\ pc = "exit"
  /\ exitCode' = IF success = "true" THEN 0 ELSE 1
  /\ pc' = "done"
  /\ UNCHANGED <<args, file, model_id, payload, api_params, calls, outcome, out, uncaught, success>>

\* an exception nothing catches leaves call_converse_with_payload and __main__:
\* the interpreter prints the traceback and exits with status 1
Traceback ==
  /\ pc = "raise"
  /\ out' = out \o <<Ev("traceback", Atom(uncaught))>>
  /\ exitCode' = 1
  /\ pc' = "done"
  /\ UNCHANGED <<args, file, model_id, payload, api_params, calls, outcome, uncaught, success>>

Next ==
  \/ MainMalformed
  \/ MainHelp
  \/ MainRun
  \/ CreateClient
  \/ LoadMissing
  \/ LoadFails
  \/ LoadOk
  \/ PrepareRequest
  \/ Converse
  \/ RenderResponse
  \/ HandleError
  \/ Finish
  \/ MainExit
  \/ Traceback

Spec == Init /\ [][Next]_vars


(***************************************************************************)
(* Properties.                                                             *)
(***************************************************************************)
Printed(k) == \E i \in 1..Len(out) : out[i].k = k
Count(k) == Len(SelectSeq(out, LAMBDA e : e.k = k))
Returned == pc \in {"exit", "done"}
Rendered == outcome.kind = "response" /\ pc \in {"finish", "exit", "done"}
NonEmpty(v) == v # EmptyList /\ v # EmptyDict /\ v # EmptyStr /\ v # PyNone

\* C1: whenever loading the payload fails (missing file, malformed JSON, any
\* other read error), the function returns False and bedrock.converse is
\* never called in that run.
C1_LoadFailureReturnsFalse ==
  file \in {"missing", "invalid_json", "unreadable"} =>
    /\ Returned
    /\ success = "false"
    /\ uncaught = ""
    /\ calls = <<>>
    /\ outcome.kind = "none"

C1_Witness == pc = "done" /\ file = "invalid_json" /\ success = "false" /\ calls = <<>>

\* C2: a payload whose inferenceConfig is missing or an empty mapping is sent
\* with exactly {maxTokens: 4096, temperature: 0.7}; a payload with a
\* non-empty inferenceConfig, a partial one included, is sent with its own
\* mapping and no default key added.
C2_AllOrNothing ==
  \A i \in 1..Len(calls) :
    LET sent == calls[i].d["inferenceConfig"] IN
    IF ~Has(payload, "inferenceConfig") \/ payload.d["inferenceConfig"] = EmptyDict
    THEN sent = Merge(One("maxTokens", PyInt(4096)), One("temperature", PyFloat(0, 7)))
    ELSE sent = payload.d["inferenceConfig"]

C2_Witness ==
  /\ calls # <<>>
  /\ Has(payload, "inferenceConfig")
  /\ payload.d["inferenceConfig"] = One("maxTokens", PyInt(2000))
  /\ DOMAIN calls[1].d["inferenceConfig"].d = {"maxTokens"}

\* C3: the request always has modelId, messages and inferenceConfig
\* (messages the empty sequence when the payload has none); it has system
\* iff the payload's system is present and non-empty, toolConfig iff the
\* payload's toolConfig is present and non-empty, and no other key; the
\* forwarded values are the payload's.
C3_RequestShape ==
  \A i \in 1..Len(calls) :
    LET r == calls[i]
        withSystem == Has(payload, "system") /\ NonEmpty(payload.d["system"])
        withTools == Has(payload, "toolConfig") /\ NonEmpty(payload.d["toolConfig"])
    IN /\ DOMAIN r.d = {"modelId", "messages", "inferenceConfig"}
                         \cup (IF withSystem THEN {"system"} ELSE {})
                         \cup (IF withTools THEN {"toolConfig"} ELSE {})
       /\ r.d["modelId"] = model_id
       /\ r.d["messages"] = (IF Has(payload, "messages") THEN payload.d["messages"] ELSE EmptyList)
       /\ withSystem => r.d["system"] = payload.d["system"]
       /\ withTools => r.d["toolConfig"] = payload.d["toolConfig"]

C3_Witness ==
  /\ calls # <<>>
  /\ Has(payload, "system") /\ ~Has(calls[1], "system")
  /\ ~Has(payload, "messages") /\ calls[1].d["messages"] = EmptyList
  /\ Has(calls[1], "toolConfig")

\* C4: a --model-id that is a key of the shortcut table is sent as the mapped
\* identifier ("claude-3.5-haiku" as
\* "us.anthropic.claude-3-5-haiku-20241022-v1:0"), any other string is sent
\* unchanged, and with no --model-id the default
\* "us.anthropic.claude-3-7-sonnet-20250219-v1:0" is sent.
C4_ModelIdResolution ==
  \A i \in 1..Len(calls) :
    LET sent == calls[i].d["modelId"]
        given == args.model_id
    IN /\ given = PyNone => sent = Atom("us.anthropic.claude-3-7-sonnet-20250219-v1:0")
       /\ given # PyNone /\ given.a \in ShortcutNames => sent = Atom(get_common_model_ids[given.a])
       /\ given = Atom("claude-3.5-haiku") => sent = Atom("us.anthropic.claude-3-5-haiku-20241022-v1:0")
       /\ given = Atom("claude-3.7-sonnet") => sent = Atom("us.anthropic.claude-3-7-sonnet-20250219-v1:0")
       /\ given # PyNone /\ given.a \notin ShortcutNames => sent = given

C4_Witness ==
  /\ calls # <<>>
  /\ args.model_id = Atom("claude-3.5-haiku")
  /\ calls[1].d["modelId"] = Atom("us.anthropic.claude-3-5-haiku-20241022-v1:0")

\* C5: every error is handled at the top level by a printed message and a
\* non-zero exit code; no exception leaves call_converse_with_payload or the
\* entry point, whatever the payload file holds and whatever client
\* construction and the network call do.
C5_EveryErrorHandled ==
  /\ uncaught = ""
  /\ pc = "done" /\ exitCode # 0 =>
       Printed("print_usage") \/ Printed("not_found") \/ Printed("invalid_json")
         \/ Printed("read_error") \/ Printed("error")

\* C6: the process exits with 0 when the run succeeds (the function returned
\* True, or help was asked for) and with 1 on every failure: missing payload
\* file, malformed JSON, network or service error, malformed command line.
\* The success banner is printed and True returned only if the network call
\* returned without raising.
C6_ExitCode ==
  /\ pc = "done" => exitCode \in {0, 1}
  /\ pc = "done" /\ (success = "true" \/ args.kind = "help") => exitCode = 0
  /\ pc = "done" /\ (file \in {"missing", "invalid_json", "unreadable"} \/ outcome.kind = "error"
                       \/ args.kind = "malformed") => exitCode = 1
  /\ pc = "done" /\ exitCode = 0 => success = "true" \/ args.kind = "help"
  /\ success = "true" \/ Printed("completed") => outcome.kind = "response" /\ Len(calls) = 1

C6_Witness == pc = "done" /\ outcome.kind = "error" /\ success = "false" /\ exitCode = 1

\* C7 as stated: a failed call whose error text contains "AccessDenied" (in
\* any case) prints the credentials hints, and one whose error text contains
\* both "ValidationException" and "model" prints the model hints.
C7_HintForEveryMatch ==
  outcome.kind = "error" /\ Returned =>
    /\ Contains(Lower(outcome.v.s), <<"a","c","c","e","s","s","d","e","n","i","e","d">>) =>
         Printed("tip_credentials") /\ Printed("tip_permission") /\ Printed("tip_console")
    /\ Contains(outcome.v.s, <<"V","a","l","i","d","a","t","i","o","n","E","x","c","e","p","t","i","o","n">>) /\ Contains(outcome.v.s, <<"m","o","d","e","l">>) =>
         Printed("tip_model_id") /\ Printed("tip_region") /\ Printed("tip_model_access")

\* C7 as amended: a failed call whose error text contains "AccessDenied" (in
\* any case) prints the credentials hints unless the text also contains both
\* "validationexception" and "model" (in any case); an error text with both
\* "ValidationException" and "model" prints the model hints.
C7_HintByPrecedence ==
  outcome.kind = "error" /\ Returned =>
    LET low == Lower(outcome.v.s)
        modelMatch == Contains(low, <<"v","a","l","i","d","a","t","i","o","n","e","x","c","e","p","t","i","o","n">>) /\ Contains(low, <<"m","o","d","e","l">>)
    IN /\ Contains(low, <<"a","c","c","e","s","s","d","e","n","i","e","d">>) /\ ~modelMatch =>
            Printed("tip_credentials") /\ Printed("tip_permission") /\ Printed("tip_console")
       /\ Contains(outcome.v.s, <<"V","a","l","i","d","a","t","i","o","n","E","x","c","e","p","t","i","o","n">>) /\ Contains(outcome.v.s, <<"m","o","d","e","l">>) =>
            Printed("tip_model_id") /\ Printed("tip_region") /\ Printed("tip_model_access")

C7_Witness ==
  /\ pc = "done" /\ outcome.kind = "error"
  /\ Contains(outcome.v.s, <<"A","c","c","e","s","s","D","e","n","i","e","d">>)
  /\ Printed("tip_credentials") /\ ~Printed("tip_model_id")

\* C8: a run whose payload file loads issues exactly one call to
\* bedrock.converse; every run issues at most one, and none after a failed
\* call, which returns False at once.
C8_ExactlyOneCall ==
  /\ Len(calls) <= 1
  /\ pc = "done" /\ file = "loaded" => Len(calls) = 1
  /\ outcome.kind = "error" /\ Returned => Len(calls) = 1 /\ success = "false"

\* the place of each print in the order the renderer promises
Rank(k) ==
  CASE k \in {"history_header", "history"} -> 1
    [] k \in {"system_header", "system_preview"} -> 2
    [] k \in {"tools_header", "tool"} -> 3
    [] k = "calling" -> 4
    [] k \in {"response_header", "text", "tool_call", "tool_id", "tool_input"} -> 5
    [] k \in {"usage_header", "usage_input", "usage_output", "usage_total", "usage_cache_read", "usage_cache_write"} -> 6
    [] k \in {"advisory", "advisory_step"} -> 7
    [] k = "stop_reason" -> 8
    [] k = "completed" -> 9
    [] OTHER -> 0

ValueOf(k) == out[CHOOSE i \in 1..Len(out) : out[i].k = k].v

\* C9: when the call returns a response, the output comes in the order
\* history preview, system preview, tools preview (all before the call), the
\* response's content blocks in their order, the usage statistics, the tool
\* advisory if any, the stop reason.  Usage and stop reason are printed for
\* every response, with "unknown" and 0 for what the response lacks.
C9_RenderOrder ==
  /\ Rendered => \A i \in 1..(Len(out) - 1) : Rank(out[i].k) <= Rank(out[i + 1].k)
  /\ calls = <<>> => \A i \in 1..Len(out) : Rank(out[i].k) <= 4
  /\ calls # <<>> =>
       /\ Printed("calling")
       /\ Printed("history") <=> Has(payload, "messages") /\ payload.d["messages"] # EmptyList
       /\ Printed("system_preview") <=> Has(payload, "system") /\ payload.d["system"] # EmptyList
       /\ Printed("tool") <=> Has(payload, "toolConfig") /\ payload.d["toolConfig"] # EmptyDict
  /\ Rendered =>
       LET response == outcome.v
           blocks == IF HasContent(response) THEN ContentOf(response) ELSE <<>>
           shown == SelectSeq(out, LAMBDA e : e.k \in {"text", "tool_call"})
       IN /\ Count("usage_header") = 1 /\ Count("usage_input") = 1
          /\ Count("usage_output") = 1 /\ Count("usage_total") = 1
          /\ Count("stop_reason") = 1
          /\ Len(shown) = Len(blocks)
          /\ \A b \in 1..Len(blocks) : shown[b].k = "text" <=> Has(blocks[b], "text")
          /\ ~Has(response, "stopReason") => ValueOf("stop_reason") = PyStr(<<"u","n","k","n","o","w","n">>)
          /\ Has(response, "stopReason") => ValueOf("stop_reason") = response.d["stopReason"]
          /\ ~Has(response, "usage") =>
               ValueOf("usage_input") = PyInt(0) /\ ValueOf("usage_output") = PyInt(0) /\ ValueOf("usage_total") = PyInt(0)
          /\ Has(response, "usage") => ValueOf("usage_total") = response.d["usage"].d["totalTokens"]

C9_Witness ==
  /\ pc = "done" /\ outcome.kind = "response"
  /\ ~Has(outcome.v, "output") /\ ~Has(outcome.v, "usage") /\ ~Has(outcome.v, "stopReason")
  /\ Printed("history") /\ Printed("system_preview") /\ Printed("tool")
  /\ Printed("usage_total") /\ Printed("stop_reason")

\* C10: the number of tool calls the advisory note reports equals the number
\* of content blocks rendered as a Tool Call, and the note is printed iff at
\* least one block was rendered so; a block with both a text key and a
\* toolUse key included.
C10_AdvisoryMatchesRendering ==
  Rendered =>
    /\ Printed("advisory") <=> Count("tool_call") >= 1
    /\ Printed("advisory") => ValueOf("advisory") = PyInt(Count("tool_call"))

====
